---- MODULE Spec2Model ----
(***************************************************************************)
(* The useTable list-state controller of @refinedev/core                   *)
(* (packages/core/src/hooks/useTable/index.ts): sorters, filters, offset   *)
(* page state, the cursor-pagination state machine, the synchronization    *)
(* with the location and the request handed to useList.                    *)
(*                                                                         *)
(* One action per handler / effect of the hook.  A handler call and the    *)
(* re-render that follows it are one step: the callbacks of the next step  *)
(* close over the state this step produced.  The effects a step makes due  *)
(* are steps of their own.                                                 *)
(***************************************************************************)
EXTENDS Integers, Sequences, FiniteSets, TLC

(***************************************************************************)
(* Bounds of the model.                                                    *)
(***************************************************************************)
MaxIncoming == 2    \* longest filter / sorter list handed to a setter
MaxHistory == 2     \* goToNextPage is not taken once history is this long
MaxPage == 5        \* largest currentPage the model walks to
MaxTotal == 47      \* largest total a response reports

(***************************************************************************)
(* Values.  JavaScript `undefined` is one distinguished string; cursor     *)
(* tokens are `unknown` in the source, the model draws them from strings   *)
(* and keeps the empty string, which JavaScript treats as falsy.           *)
(***************************************************************************)
undefined == "undefined"

Tokens == {"", "abc", "def"}

MaybeToken == Tokens \cup {undefined}

\* ToBoolean of a cursor value: `if (x)`, `!!x`, `Boolean(x)`
Truthy(x) == x # undefined /\ x # ""

CursorDirection == {"after", "before"}

PaginationModes == {"server", "cursor", "off"}

SetFilterBehavior == {"merge", "replace"}

\* CrudFilter values of the model: two fields, two operators on "status",
\* two values under the key (status, eq).
CrudFilter ==
    { [field |-> "status", operator |-> "eq", value |-> "open"],
      [field |-> "status", operator |-> "eq", value |-> "closed"],
      [field |-> "status", operator |-> "ne", value |-> "open"],
      [field |-> "author", operator |-> "eq", value |-> "alice"] }

\* CrudSort values of the model
CrudSort == [field : {"title", "id"}, order : {"asc", "desc"}]

\* all sequences over S of length at most n
SeqUpTo(S, n) == UNION { [1..k -> S] : k \in 0..n }

(***************************************************************************)
(* FilterSetMerger / SorterSetMerger (@definitions/table).                 *)
(* union(permanent, incoming, [previous]): permanent entries first in      *)
(* their given order, then the incoming entries whose key no permanent     *)
(* entry has, then the previous entries whose key neither has; duplicates  *)
(* by key inside one list resolve to the last occurrence.                  *)
(***************************************************************************)
\* uniqueness key of a filter entry: field + operator
filterKey(f) == <<f.field, f.operator>>

compareFilters(left, right) == filterKey(left) = filterKey(right)

\* uniqueness key of a sort entry: field
sorterKey(s) == <<s.field>>

compareSorters(left, right) == sorterKey(left) = sorterKey(right)

\* the entries of s at the indices in keep, in their order in s
pick(s, keep) ==
    [ k \in 1..Cardinality(keep) |->
        s[CHOOSE i \in keep : Cardinality({ j \in keep : j <= i }) = k] ]

\* s, whose keys are the sequence k, without every entry that a later entry
\* of s overrides
lastByKey(s, k) ==
    pick(s, { i \in DOMAIN s : \A j \in DOMAIN s : j > i => k[j] # k[i] })

\* the entries of s, whose keys are the sequence k, with no key in `taken`
notRepresented(s, k, taken) ==
    pick(s, { i \in DOMAIN s : k[i] \notin taken })

filterKeys(s) == [ i \in DOMAIN s |-> filterKey(s[i]) ]

sorterKeys(s) == [ i \in DOMAIN s |-> sorterKey(s[i]) ]

keySet(k) == { k[i] : i \in DOMAIN k }

unionFilters(permanentFilter, newFilters, prevFilters) ==
    LET permanentKeys == keySet(filterKeys(permanentFilter))
        newKeys == keySet(filterKeys(newFilters))
        incoming == notRepresented(newFilters, filterKeys(newFilters),
                                   permanentKeys)
        previous == notRepresented(prevFilters, filterKeys(prevFilters),
                                   permanentKeys \cup newKeys)
    IN  permanentFilter
            \o lastByKey(incoming, filterKeys(incoming))
            \o lastByKey(previous, filterKeys(previous))

unionSorters(permanentSorter, newSorters) ==
    LET incoming == notRepresented(newSorters, sorterKeys(newSorters),
                                   keySet(sorterKeys(permanentSorter)))
    IN  permanentSorter \o lastByKey(incoming, sorterKeys(incoming))

\* initial filters / sorters: the permanent set unioned with the defaults
setInitialFilters(permanentFilter, defaultFilter) ==
    unionFilters(permanentFilter, defaultFilter, <<>>)

setInitialSorters(permanentSorter, defaultSorter) ==
    unionSorters(permanentSorter, defaultSorter)

(***************************************************************************)
(* State of one mounted useTable.                                          *)
(***************************************************************************)
VARIABLES
    pagination,                 \* prop: [mode, currentPage, pageSize]
    preferredPermanentFilters,  \* prop filters.permanent ?? []
    preferredInitialFilters,    \* prop filters.initial (<<>> when not given)
    preferredPermanentSorters,  \* prop sorters.permanent ?? []
    preferredInitialSorters,    \* prop sorters.initial (<<>> when not given)
    prefferedFilterBehavior,    \* prop filters.defaultBehavior ?? "merge"
    sorters,                    \* useState
    filters,                    \* useState
    currentPage,                \* useState
    pageSize,                   \* useState
    cursorState,                \* useState [current, direction, next, prev, history]
    call,                       \* the handler or effect that ran last, with its argument
    syncWithLocation,           \* prop (or the context's value)
    filtersMode,                \* prop filters.mode || "server"
    sortersMode,                \* prop sorters.mode || "server"
    mountParams,                \* the parsed location the first render saw
    parsedParams,               \* useParsed().params: the parsed location
    total,                      \* queryResult.result?.total: <<>> or <<n>>
    pending,                    \* effects whose dependencies changed: [reset, syncOut]
    trail,                      \* the current tokens of the pages navigated through
    phase,                      \* "free", or "back" once the user only goes back
    inFlight,                   \* the requests the Fetcher has not answered yet
    answered                    \* the request whose response set next and prev

props == <<pagination, preferredPermanentFilters, preferredInitialFilters,
           preferredPermanentSorters, preferredInitialSorters,
           prefferedFilterBehavior, syncWithLocation, filtersMode, sortersMode,
           mountParams>>

\* what the scenario of a specification drives: effect scheduling, the
\* navigation trail, the phase and the requests of the Fetcher
aux == <<pending, trail, phase, inFlight, answered>>

vars == <<pagination, preferredPermanentFilters, preferredInitialFilters,
          preferredPermanentSorters, preferredInitialSorters,
          prefferedFilterBehavior, sorters, filters, currentPage, pageSize,
          cursorState, call, syncWithLocation, filtersMode, sortersMode,
          mountParams, parsedParams, total, pending, trail, phase, inFlight, answered>>

\* the state the current render shows, which the callbacks close over
rendered ==
    [sorters |-> sorters, filters |-> filters, currentPage |-> currentPage,
     pageSize |-> pageSize, cursorState |-> cursorState,
     parsedParams |-> parsedParams]

\* the record of a handler or effect run: its name, its arguments and the
\* rendered state it was applied to
ran(op, arg, behavior) ==
    [op |-> op, arg |-> arg, behavior |-> behavior, from |-> rendered]

isPaginationEnabled == pagination.mode # "off"

isCursorPaginationEnabled == pagination.mode = "cursor"

isServerSideFilteringEnabled == filtersMode = "server"

isServerSideSortingEnabled == sortersMode = "server"

(***************************************************************************)
(* The parsed location (LocationStore).  Its keys: currentPage, pageSize   *)
(* (0: not in the location), sorters, filters (<<>>: not in the location), *)
(* after, before, and `other`: whether a parameter the hook does not       *)
(* control is present.  parseTableParams(search) reads the same location,  *)
(* so it yields the same values as the keys.                               *)
(***************************************************************************)
NoParams ==
    [currentPage |-> 0, pageSize |-> 0, sorters |-> <<>>, filters |-> <<>>,
     after |-> undefined, before |-> undefined, other |-> FALSE]

\* parsedParams.params.search === "": the serialized location is empty
searchIsEmpty(params) == params = NoParams

\* mutant: the preferred page size comes before the location's
defaultPageSizeAt_preferredFirst(params) ==
    IF pagination.pageSize # 0 THEN pagination.pageSize
    ELSE IF syncWithLocation /\ params.pageSize # 0 THEN params.pageSize
    ELSE 10

\* mutant: the preferred page is left out
defaultCurrentPageAt_noPreferred(params) ==
    IF syncWithLocation /\ params.currentPage # 0 THEN params.currentPage
    ELSE 1

\* `a || b || c`: the first operand that is not 0 (not given / falsy)
firstPresent(a, b, c) == IF a # 0 THEN a ELSE IF b # 0 THEN b ELSE c

\* the defaults a render computes from the parsed location `params`
defaultCurrentPageAt(params) ==
    IF syncWithLocation
    THEN firstPresent(params.currentPage, pagination.currentPage, 1)
    ELSE firstPresent(pagination.currentPage, 1, 1)

defaultPageSizeAt(params) ==
    IF syncWithLocation
    THEN firstPresent(params.pageSize, pagination.pageSize, 10)
    ELSE firstPresent(pagination.pageSize, 10, 10)

defaultSorterAt(params) ==
    IF syncWithLocation /\ params.sorters # <<>> THEN params.sorters
    ELSE preferredInitialSorters

defaultFilterAt(params) ==
    IF syncWithLocation /\ params.filters # <<>> THEN params.filters
    ELSE preferredInitialFilters

defaultCursorAt(params) ==
    IF syncWithLocation /\ isCursorPaginationEnabled
    THEN IF Truthy(params.after) THEN params.after
         ELSE IF Truthy(params.before) THEN params.before
         ELSE undefined
    ELSE undefined

defaultCursorDirectionAt(params) ==
    IF syncWithLocation /\ isCursorPaginationEnabled
          /\ ~Truthy(params.after) /\ Truthy(params.before)
    THEN "before"
    ELSE "after"

\* the defaults of the current render
defaultCurrentPage == defaultCurrentPageAt(parsedParams)

defaultPageSize == defaultPageSizeAt(parsedParams)

defaultSorter == defaultSorterAt(parsedParams)

defaultFilter == defaultFilterAt(parsedParams)

defaultCursor == defaultCursorAt(parsedParams)

defaultCursorDirection == defaultCursorDirectionAt(parsedParams)

(***************************************************************************)
(* Inputs of the model.                                                    *)
(***************************************************************************)
statusOpen == [field |-> "status", operator |-> "eq", value |-> "open"]

authorAlice == [field |-> "author", operator |-> "eq", value |-> "alice"]

PermanentFilterChoices == { <<>>, <<statusOpen>>, <<statusOpen, authorAlice>> }

InitialFilterChoices ==
    { <<>>,
      <<[field |-> "status", operator |-> "eq", value |-> "closed"],
        [field |-> "status", operator |-> "ne", value |-> "open"]>> }

PermanentSorterChoices == { <<>>, <<[field |-> "id", order |-> "desc"]>> }

InitialSorterChoices ==
    { <<>>, <<[field |-> "title", order |-> "asc"]>>,
      <<[field |-> "id", order |-> "asc"]>> }

\* the lists handed to the setters: no entry twice, but entries may share a key
Distinct(s) == \A i, j \in DOMAIN s : i # j => s[i] # s[j]

IncomingFilters == { s \in SeqUpTo(CrudFilter, MaxIncoming) : Distinct(s) }

IncomingSorters == { s \in SeqUpTo(CrudSort, MaxIncoming) : Distinct(s) }

\* the updater functions handed to setFilters: prev => [...prev, ...value],
\* prev => prev.filter(not in value), prev => value
applySetter(setter, prev) ==
    CASE setter.kind = "append" -> prev \o setter.value
      [] setter.kind = "remove" ->
            SelectSeq(prev, LAMBDA e :
                        \A i \in DOMAIN setter.value : setter.value[i] # e)
      [] OTHER -> setter.value

\* first argument of setFilters: a list of filters or an updater function
SetterOrFilters ==
    [isFunction : {FALSE}, kind : {"filters"}, value : IncomingFilters]
        \cup [isFunction : {TRUE}, kind : {"append", "remove", "constant"},
              value : SeqUpTo(CrudFilter, 1)]

\* second argument of setFilters; undefined when the caller leaves it out
BehaviorArgs == SetFilterBehavior \cup {undefined}


(***************************************************************************)
(* The state after the first render (useState initialisers).               *)
(***************************************************************************)
InitState ==
    /\ sorters = setInitialSorters(preferredPermanentSorters, defaultSorter)
    /\ filters = setInitialFilters(preferredPermanentFilters, defaultFilter)
    /\ currentPage = defaultCurrentPage
    /\ pageSize = defaultPageSize
    /\ cursorState = [current |-> defaultCursor,
                      direction |-> defaultCursorDirection,
                      next |-> undefined, prev |-> undefined, history |-> <<>>]
    /\ total = <<>>
    /\ mountParams = parsedParams
    /\ call = [op |-> "mount", arg |-> <<>>, behavior |-> undefined,
               from |-> rendered]

(***************************************************************************)
(* setFilters                                                              *)
(***************************************************************************)
\* mutant: the incoming filters handed to the merger as the permanent set
setFiltersAsMerge_incomingFirst(prevFilters, newFilters) ==
    unionFilters(newFilters, preferredPermanentFilters, prevFilters)

setFiltersAsMerge(prevFilters, newFilters) ==
    unionFilters(preferredPermanentFilters, newFilters, prevFilters)

\* mutant: replace forgets the permanent filters
setFiltersAsReplace_noPermanent(newFilters) ==
    unionFilters(<<>>, newFilters, <<>>)

\* mutant: replace merges into the previous filters state
setFiltersAsReplace_keepsPrevious(newFilters) ==
    unionFilters(preferredPermanentFilters, newFilters, filters)

setFiltersAsReplace(newFilters) ==
    unionFilters(preferredPermanentFilters, newFilters, <<>>)

setFiltersWithSetter(prev, setter) ==
    unionFilters(preferredPermanentFilters, applySetter(setter, prev), <<>>)

\* the filters state setFiltersFn leaves, given the state it is applied to
setFiltersFn(prev, setterOrFilters, behaviorArg) ==
    LET behavior == IF behaviorArg = undefined THEN prefferedFilterBehavior
                    ELSE behaviorArg
    IN  IF setterOrFilters.isFunction
        THEN setFiltersWithSetter(prev, setterOrFilters)
        ELSE IF behavior = "replace"
             THEN setFiltersAsReplace(setterOrFilters.value)
             ELSE setFiltersAsMerge(prev, setterOrFilters.value)

\* mutant: a change of filters goes back to the first page
SetFilters_resetsPage(setterOrFilters, behaviorArg) ==
    /\ filters' = setFiltersFn(filters, setterOrFilters, behaviorArg)
    /\ currentPage' = 1
    /\ call' = ran("setFilters", setterOrFilters, behaviorArg)
    /\ UNCHANGED <<props, sorters, pageSize, cursorState, parsedParams, total>>

SetFilters(setterOrFilters, behaviorArg) ==
    /\ filters' = setFiltersFn(filters, setterOrFilters, behaviorArg)
    /\ call' = ran("setFilters", setterOrFilters, behaviorArg)
    /\ UNCHANGED <<props, sorters, currentPage, pageSize, cursorState, parsedParams, total>>

(***************************************************************************)
(* setSorters                                                              *)
(***************************************************************************)
\* mutant: setSorters forgets the permanent sorters
setSortWithUnion_noPermanent(newSorter) == newSorter

setSortWithUnion(newSorter) ==
    unionSorters(preferredPermanentSorters, newSorter)

SetSorters(newSorter) ==
    /\ sorters' = setSortWithUnion(newSorter)
    /\ call' = ran("setSorters", newSorter, undefined)
    /\ UNCHANGED <<props, filters, currentPage, pageSize, cursorState, parsedParams, total>>

(***************************************************************************)
(* The reset effect: the parsed location's search became "".               *)
(***************************************************************************)
resetFilters ==
    setInitialFilters(preferredPermanentFilters, defaultFilter)

resetSorters ==
    setInitialSorters(preferredPermanentSorters, defaultSorter)

\* mutant: the reset also goes back to the first page of the cursor
ResetEffect_clearsCursor ==
    /\ searchIsEmpty(parsedParams)
    /\ currentPage' = defaultCurrentPage
    /\ pageSize' = defaultPageSize
    /\ sorters' = resetSorters
    /\ filters' = resetFilters
    /\ cursorState' = [current |-> undefined, direction |-> "after",
                       next |-> undefined, prev |-> undefined, history |-> <<>>]
    /\ call' = ran("reset", pending.reset, undefined)
    /\ UNCHANGED <<props, parsedParams, total>>

ResetEffect ==
    /\ searchIsEmpty(parsedParams)
    /\ currentPage' = defaultCurrentPage
    /\ pageSize' = defaultPageSize
    /\ sorters' = resetSorters
    /\ filters' = resetFilters
    /\ call' = ran("reset", pending.reset, undefined)
    /\ UNCHANGED <<props, cursorState, parsedParams, total>>

(***************************************************************************)
(* CursorTracker: the cursor response effect and the navigation helpers.   *)
(***************************************************************************)
\* a successful getList response, as far as the hook reads it:
\* no `cursor` at all, or a cursor whose next / prev may be missing
NoCursor ==
    [cursor |-> FALSE, next |-> undefined, prev |-> undefined, total |-> <<>>]

\* the cursor responses: the model leaves their total out
Responses ==
    {NoCursor} \cup
        [cursor : {TRUE}, next : MaybeToken, prev : MaybeToken, total : {<<>>}]

\* response.cursor?.next and response.cursor?.prev
responseNext(response) == IF response.cursor THEN response.next ELSE undefined

responsePrev(response) == IF response.cursor THEN response.prev ELSE undefined

\* mutant: a response without a token keeps the token of the earlier response
cursorResponseEffect_keepsTokens(cs, response) ==
    IF isCursorPaginationEnabled
    THEN [cs EXCEPT
            !.next = IF responseNext(response) = undefined THEN cs.next
                     ELSE responseNext(response),
            !.prev = IF responsePrev(response) = undefined THEN cs.prev
                     ELSE responsePrev(response)]
    ELSE cs

\* setCursorState((prev) => ({...prev, next, prev})) of the response effect
cursorResponseEffect(cs, response) ==
    IF isCursorPaginationEnabled
    THEN [cs EXCEPT !.next = responseNext(response),
                    !.prev = responsePrev(response)]
    ELSE cs

FetchSuccess(response) ==
    /\ cursorState' = cursorResponseEffect(cursorState, response)
    /\ total' = response.total
    /\ call' = ran("fetch", response, undefined)
    /\ UNCHANGED <<props, sorters, filters, currentPage, pageSize, parsedParams>>

\* cursorMeta.cursor: the cursor position a render asks useList for
requestOf(cs) == [current |-> cs.current, direction |-> cs.direction]

\* no response has set next and prev yet
NoRequest == [current |-> undefined, direction |-> "none"]

\* mutant: navigating forward keeps the prev token of the page left
goToNextPageCursor_keepsPrev(cs) ==
    IF Truthy(cs.next)
    THEN [current |-> cs.next, direction |-> "after",
          history |-> Append(cs.history, cs.current),
          next |-> undefined, prev |-> cs.prev]
    ELSE cs

\* mutant: the token pushed onto history is the one navigated to
goToNextPageCursor_pushesNext(cs) ==
    IF Truthy(cs.next)
    THEN [current |-> cs.next, direction |-> "after",
          history |-> Append(cs.history, cs.next),
          next |-> undefined, prev |-> undefined]
    ELSE cs

\* goToNextPage in cursor mode, applied to the rendered cursor state
goToNextPageCursor(cs) ==
    IF Truthy(cs.next)
    THEN [current |-> cs.next, direction |-> "after",
          history |-> Append(cs.history, cs.current),
          next |-> undefined, prev |-> undefined]
    ELSE cs

GoToNextPage ==
    /\ IF ~isCursorPaginationEnabled
       THEN /\ currentPage < MaxPage
            /\ currentPage' = currentPage + 1
            /\ UNCHANGED cursorState
       ELSE /\ Len(cursorState.history) < MaxHistory
            /\ cursorState' = goToNextPageCursor(cursorState)
            /\ UNCHANGED currentPage
    /\ call' = ran("goToNextPage", <<>>, undefined)
    /\ UNCHANGED <<props, sorters, filters, pageSize, parsedParams, total>>

\* the updater goToNextPage hands to setCursorState: it reads the state of
\* the moment it is applied, not the rendered one
goToNextPageUpdater(prev) ==
    [current |-> prev.next, direction |-> "after",
     history |-> Append(prev.history, prev.current),
     next |-> undefined, prev |-> undefined]

\* goToNextPage called twice in one event, before any re-render: both calls
\* test the rendered cursorState.next (offset mode: two increments), and
\* each hands its updater to setCursorState
GoToNextPageTwice ==
    /\ IF ~isCursorPaginationEnabled
       THEN /\ currentPage + 1 < MaxPage
            /\ currentPage' = (currentPage + 1) + 1
            /\ UNCHANGED cursorState
       ELSE /\ Len(cursorState.history) + 1 < MaxHistory
            /\ cursorState' = IF Truthy(cursorState.next)
                              THEN goToNextPageUpdater(goToNextPageUpdater(cursorState))
                              ELSE cursorState
            /\ UNCHANGED currentPage
    /\ call' = ran("goToNextPageTwice", <<>>, undefined)
    /\ UNCHANGED <<props, sorters, filters, pageSize, parsedParams, total>>

\* mutant: the history fallback sets the popped token but keeps the stack
goToPreviousPageCursor_keepsHistory(cs) ==
    IF Truthy(cs.prev)
    THEN [current |-> cs.prev, direction |-> "before",
          next |-> undefined, prev |-> undefined, history |-> cs.history]
    ELSE IF Len(cs.history) > 0
    THEN [current |-> cs.history[Len(cs.history)], direction |-> "after",
          next |-> undefined, prev |-> undefined, history |-> cs.history]
    ELSE IF Truthy(cs.current)
    THEN [current |-> undefined, direction |-> "after",
          next |-> undefined, prev |-> undefined, history |-> <<>>]
    ELSE cs

\* mutant: no third tier, a cursor without prev and history stays put
goToPreviousPageCursor_noFirstPage(cs) ==
    IF Truthy(cs.prev)
    THEN [current |-> cs.prev, direction |-> "before",
          next |-> undefined, prev |-> undefined, history |-> cs.history]
    ELSE IF Len(cs.history) > 0
    THEN [current |-> cs.history[Len(cs.history)], direction |-> "after",
          next |-> undefined, prev |-> undefined,
          history |-> SubSeq(cs.history, 1, Len(cs.history) - 1)]
    ELSE cs

\* goToPreviousPage in cursor mode, applied to the rendered cursor state
goToPreviousPageCursor(cs) ==
    IF Truthy(cs.prev)
    THEN [current |-> cs.prev, direction |-> "before",
          next |-> undefined, prev |-> undefined, history |-> cs.history]
    ELSE IF Len(cs.history) > 0
    THEN [current |-> cs.history[Len(cs.history)], direction |-> "after",
          next |-> undefined, prev |-> undefined,
          history |-> SubSeq(cs.history, 1, Len(cs.history) - 1)]
    ELSE IF Truthy(cs.current)
    THEN [current |-> undefined, direction |-> "after",
          next |-> undefined, prev |-> undefined, history |-> <<>>]
    ELSE cs

\* mutant: the page before, without the floor at 1
previousPage_noFloor(page) == page - 1

\* Math.max(1, prev - 1)
previousPage(page) == IF page - 1 > 1 THEN page - 1 ELSE 1

GoToPreviousPage ==
    /\ IF ~isCursorPaginationEnabled
       THEN /\ currentPage' = previousPage(currentPage)
            /\ UNCHANGED cursorState
       ELSE /\ cursorState' = goToPreviousPageCursor(cursorState)
            /\ UNCHANGED currentPage
    /\ call' = ran("goToPreviousPage", <<>>, undefined)
    /\ UNCHANGED <<props, sorters, filters, pageSize, parsedParams, total>>

hasNextPageCursor == Truthy(cursorState.next)

hasPreviousPageCursor ==
    \/ Truthy(cursorState.prev)
    \/ Len(cursorState.history) > 0
    \/ Truthy(cursorState.current)

(***************************************************************************)
(* The derived values of offset pagination.                                *)
(***************************************************************************)
\* queryResult.result?.total ?? 0
totalOrZero(t) == IF t = <<>> THEN 0 ELSE t[1]

\* mutant: the quotient rounded down
pageCountOf_roundsDown(t, size) ==
    IF size # 0 THEN totalOrZero(t) \div size ELSE 1

\* pageSize ? Math.ceil(total / pageSize) : 1
pageCountOf(t, size) ==
    IF size # 0 THEN (totalOrZero(t) + size - 1) \div size ELSE 1

pageCount == pageCountOf(total, pageSize)

hasNextPage ==
    IF isCursorPaginationEnabled THEN hasNextPageCursor
    ELSE currentPage < pageCount

hasPreviousPage ==
    IF isCursorPaginationEnabled THEN hasPreviousPageCursor
    ELSE currentPage > 1

(***************************************************************************)
(* The direct setters of the offset page state.                            *)
(***************************************************************************)
PageSizes == {5, 10}

SetCurrentPage(n) ==
    /\ currentPage' = n
    /\ call' = ran("setCurrentPage", n, undefined)
    /\ UNCHANGED <<props, sorters, filters, pageSize, cursorState, parsedParams, total>>

SetPageSize(n) ==
    /\ pageSize' = n
    /\ call' = ran("setPageSize", n, undefined)
    /\ UNCHANGED <<props, sorters, filters, currentPage, cursorState, parsedParams, total>>

(***************************************************************************)
(* Synchronization with the location.  A query handed to `go` is the       *)
(* record of its values with `keys`, the page and cursor keys it carries;  *)
(* a cursor key it carries with the value undefined is cleared.  `go`      *)
(* keeps the parameters of the location that the query does not carry      *)
(* (keepQuery); an empty sorters / filters list serializes to nothing.     *)
(***************************************************************************)
\* mutant: nothing is taken out
differenceWith_keepsAll(list, permanent) == list

\* differenceWith(list, permanent, isEqual)
differenceWith(list, permanent) ==
    pick(list, { i \in DOMAIN list :
                    \A j \in DOMAIN permanent : permanent[j] # list[i] })

shouldSyncPagination == isPaginationEnabled /\ ~isCursorPaginationEnabled

shouldSyncCursor == isPaginationEnabled /\ isCursorPaginationEnabled

\* mutant: both cursor keys carry the current token
cursorParam_bothKeys(cs, key) == cs.current

\* cursorParams[key], for key after / before
cursorParam(cs, key) ==
    IF cs.current # undefined /\ cs.direction = key THEN cs.current
    ELSE undefined

\* the query the sync-out effect hands to go
syncQuery ==
    [keys |-> (IF shouldSyncPagination THEN {"currentPage", "pageSize"} ELSE {})
                \cup (IF shouldSyncCursor THEN {"after", "before"} ELSE {}),
     currentPage |-> IF shouldSyncPagination THEN currentPage ELSE 0,
     pageSize |-> IF shouldSyncPagination THEN pageSize ELSE 0,
     after |-> IF shouldSyncCursor THEN cursorParam(cursorState, "after")
               ELSE undefined,
     before |-> IF shouldSyncCursor THEN cursorParam(cursorState, "before")
                ELSE undefined,
     sorters |-> differenceWith(sorters, preferredPermanentSorters),
     filters |-> differenceWith(filters, preferredPermanentFilters)]

\* the location go produces from the location `params` and `query`
goQuery(params, query) ==
    [currentPage |-> IF "currentPage" \in query.keys THEN query.currentPage
                     ELSE params.currentPage,
     pageSize |-> IF "pageSize" \in query.keys THEN query.pageSize
                  ELSE params.pageSize,
     after |-> IF "after" \in query.keys THEN query.after ELSE params.after,
     before |-> IF "before" \in query.keys THEN query.before
                ELSE params.before,
     sorters |-> query.sorters,
     filters |-> query.filters,
     other |-> params.other]

\* the sync-out effect
SyncOutEffect ==
    /\ parsedParams' = IF syncWithLocation
                       THEN goQuery(parsedParams, syncQuery)
                       ELSE parsedParams
    /\ call' = ran("syncOut", syncQuery, undefined)
    /\ UNCHANGED <<props, sorters, filters, currentPage, pageSize, cursorState, total>>

\* `rest`: the location without the keys sorters, filters, pageSize, current
getCurrentQueryParams(params) ==
    [currentPage |-> params.currentPage, after |-> params.after,
     before |-> params.before, other |-> params.other]

\* the query of createLinkForSyncWithLocation: `rest` is spread last
linkQuery(given) ==
    LET rest == getCurrentQueryParams(parsedParams)
    IN  [keys |-> (IF isPaginationEnabled THEN {"currentPage", "pageSize"}
                   ELSE {})
                    \cup (IF rest.currentPage # 0 THEN {"currentPage"} ELSE {})
                    \cup (IF rest.after # undefined THEN {"after"} ELSE {})
                    \cup (IF rest.before # undefined THEN {"before"} ELSE {}),
         currentPage |-> IF rest.currentPage # 0 THEN rest.currentPage
                         ELSE IF isPaginationEnabled THEN given.currentPage
                         ELSE 0,
         pageSize |-> IF isPaginationEnabled THEN given.pageSize ELSE 0,
         after |-> rest.after,
         before |-> rest.before,
         sorters |-> given.sorters,
         filters |-> given.filters]

createLinkForSyncWithLocation(given) == goQuery(parsedParams, linkQuery(given))

CreateLink(given) ==
    /\ call' = ran("createLink", [given |-> given, link |-> createLinkForSyncWithLocation(given)], undefined)
    /\ UNCHANGED <<props, sorters, filters, currentPage, pageSize, cursorState, parsedParams, total>>

\* the user, or other code, navigates to another location
Navigate(params) ==
    /\ params # parsedParams
    /\ parsedParams' = params
    /\ call' = ran("navigate", params, undefined)
    /\ UNCHANGED <<props, sorters, filters, currentPage, pageSize, cursorState, total>>

(***************************************************************************)
(* The request handed to useList (the Fetcher).  `keys` are the parts it   *)
(* carries: of pagination currentPage, pageSize and mode, then filters,    *)
(* sorters and meta.cursor; a part it does not carry reads 0, <<>> or      *)
(* undefined.                                                              *)
(***************************************************************************)
\* mutant: currentPage is sent in every mode
paginationKeys_withCurrentPage(cursorEnabled) ==
    {"currentPage", "pageSize", "mode"}

\* the keys of the pagination argument
paginationKeys(cursorEnabled) ==
    IF cursorEnabled THEN {"pageSize", "mode"}
    ELSE {"currentPage", "pageSize", "mode"}

listRequest ==
    [keys |-> paginationKeys(isCursorPaginationEnabled)
                \cup (IF isServerSideFilteringEnabled THEN {"filters"} ELSE {})
                \cup (IF isServerSideSortingEnabled THEN {"sorters"} ELSE {})
                \cup (IF isCursorPaginationEnabled THEN {"meta.cursor"} ELSE {}),
     currentPage |-> IF isCursorPaginationEnabled THEN 0 ELSE currentPage,
     pageSize |-> pageSize,
     mode |-> pagination.mode,
     filters |-> IF isServerSideFilteringEnabled
                 THEN unionFilters(preferredPermanentFilters, filters, <<>>)
                 ELSE <<>>,
     sorters |-> IF isServerSideSortingEnabled
                 THEN unionSorters(preferredPermanentSorters, sorters)
                 ELSE <<>>,
     cursor |-> IF isCursorPaginationEnabled
                THEN [current |-> cursorState.current,
                      direction |-> cursorState.direction]
                ELSE [current |-> undefined, direction |-> undefined]]

\* a render hands its request to useList
SendRequest ==
    /\ call' = ran("useList", listRequest, undefined)
    /\ UNCHANGED <<props, sorters, filters, currentPage, pageSize, cursorState, parsedParams, total>>

(***************************************************************************)
(* Specifications.                                                         *)
(***************************************************************************)
\* the `pagination` prop; 0 stands for a currentPage / pageSize not given
Paginations == [mode : PaginationModes, currentPage : {0, 2}, pageSize : {0, 5}]

NoPagination == [mode |-> "server", currentPage |-> 0, pageSize |-> 0]

CursorPagination == [mode |-> "cursor", currentPage |-> 0, pageSize |-> 0]

\* the props a mount draws: `paginations` and the filter / sorter
\* configurations.
\* Mount: a mount without a location: synchronization off, the location
\* bare; the reset effect then stands for a navigation to the bare location.
Props(paginations, permFilters, initFilters, permSorters, initSorters, behaviors) ==
    /\ pagination \in paginations
    /\ preferredPermanentFilters \in permFilters
    /\ preferredInitialFilters \in initFilters
    /\ preferredPermanentSorters \in permSorters
    /\ preferredInitialSorters \in initSorters
    /\ prefferedFilterBehavior \in behaviors

Mount(paginations, permFilters, initFilters, permSorters, initSorters, behaviors) ==
    /\ Props(paginations, permFilters, initFilters, permSorters, initSorters, behaviors)
    /\ syncWithLocation = FALSE
    /\ filtersMode = "server"
    /\ sortersMode = "server"
    /\ parsedParams = NoParams
    /\ pending = [reset |-> "navigation", syncOut |-> FALSE]
    /\ phase = "free"
    /\ InitState
    /\ trail = <<cursorState.current>>
    /\ inFlight = {requestOf(cursorState)}
    /\ answered = NoRequest

\* filters: every form of setFilters and the reset effect
InitFilters ==
    Mount({NoPagination}, PermanentFilterChoices, InitialFilterChoices,
          {<<>>}, {<<>>}, SetFilterBehavior)

NextFilters ==
    \/ \E f \in SetterOrFilters :
          \E b \in IF f.isFunction THEN {undefined} ELSE BehaviorArgs :
              SetFilters(f, b) /\ UNCHANGED aux
    \/ ResetEffect /\ UNCHANGED aux

SpecFilters == InitFilters /\ [][NextFilters]_vars

\* sorters: setSorters and the reset effect
InitSorters ==
    Mount({NoPagination}, {<<statusOpen>>}, {<<>>},
          PermanentSorterChoices, InitialSorterChoices, {"merge"})

NextSorters ==
    \/ \E s \in IncomingSorters : SetSorters(s) /\ UNCHANGED aux
    \/ ResetEffect /\ UNCHANGED aux

SpecSorters == InitSorters /\ [][NextSorters]_vars

\* pagination: the navigation helpers and the fetch completions, every mode
InitCursor ==
    Mount(Paginations, {<<statusOpen>>}, {<<>>}, {<<>>}, {<<>>}, {"merge"})

NextCursor ==
    \/ GoToNextPage /\ UNCHANGED aux
    \/ GoToPreviousPage /\ UNCHANGED aux
    \/ \E r \in Responses : FetchSuccess(r) /\ UNCHANGED aux
    \/ ResetEffect /\ UNCHANGED aux

SpecCursor == InitCursor /\ [][NextCursor]_vars

(***************************************************************************)
(* The hook on a location.  Both effects run after the first render; after *)
(* that the reset effect runs when the location changed and the sync-out   *)
(* effect when a state it depends on changed, the reset effect first.  A   *)
(* handler runs once the effects have run.  pending.reset names what       *)
(* changed the location: the mount, a navigation, or a write of the        *)
(* sync-out effect.                                                        *)
(***************************************************************************)
titleAsc == [field |-> "title", order |-> "asc"]

idDesc == [field |-> "id", order |-> "desc"]

\* a mount on the location, one of `locations`
MountAt(syncs, locations) ==
    /\ syncWithLocation \in syncs
    /\ parsedParams \in locations
    /\ filtersMode = "server"
    /\ sortersMode = "server"
    /\ pending = [reset |-> "mount", syncOut |-> TRUE]
    /\ phase = "free"
    /\ InitState
    /\ trail = <<cursorState.current>>
    /\ inFlight = {requestOf(cursorState)}
    /\ answered = NoRequest

idle == pending = [reset |-> "no", syncOut |-> FALSE]

\* a handler ran: the sync-out effect is due if `due`
handled(due) ==
    /\ pending' = [reset |-> "no", syncOut |-> due]
    /\ UNCHANGED <<trail, phase, inFlight, answered>>

syncDependencies ==
    <<currentPage, pageSize, cursorState.current, cursorState.direction>>

LocReset ==
    /\ pending.reset # "no"
    /\ ResetEffect
    /\ pending' = [reset |-> "no", syncOut |-> TRUE]
    /\ UNCHANGED <<trail, phase, inFlight, answered>>

LocResetSkipped ==
    /\ pending.reset # "no"
    /\ ~searchIsEmpty(parsedParams)
    /\ pending' = [pending EXCEPT !.reset = "no"]
    /\ UNCHANGED <<props, sorters, filters, currentPage, pageSize, cursorState, call, parsedParams, total, trail, phase, inFlight, answered>>

LocSyncOut ==
    /\ pending.reset = "no"
    /\ pending.syncOut
    /\ SyncOutEffect
    /\ pending' = [reset |-> IF parsedParams' # parsedParams THEN "write" ELSE "no", syncOut |-> FALSE]
    /\ UNCHANGED <<trail, phase, inFlight, answered>>

LocNavigate(locations) ==
    /\ idle
    /\ \E params \in locations : Navigate(params)
    /\ pending' = [reset |-> "navigation", syncOut |-> FALSE]
    /\ UNCHANGED <<trail, phase, inFlight, answered>>

\* the mount on every location, and the effects of the first render
PageParams == {0, 3}

SizeParams == {0, 20}

AllLocations ==
    [currentPage : PageParams, pageSize : SizeParams,
     sorters : {<<>>, <<titleAsc>>}, filters : {<<>>, <<authorAlice>>},
     after : {undefined, "abc"}, before : {undefined, "def"},
     other : {FALSE}]

InitMount ==
    /\ Props(Paginations, {<<statusOpen>>}, {<<>>, <<[field |-> "author", operator |-> "eq", value |-> "bob"]>>}, {<<idDesc>>}, {<<>>, <<[field |-> "title", order |-> "desc"]>>}, {"merge"})
    /\ MountAt(BOOLEAN, AllLocations)

NextMount == LocReset \/ LocResetSkipped \/ LocSyncOut

SpecMount == InitMount /\ [][NextMount]_vars

(***************************************************************************)
(* The hook on a location, in use: handlers, fetch completions,            *)
(* navigations and the effects they make due.                              *)
(***************************************************************************)
OffsetLocPaginations ==
    [mode : {"server", "off"}, currentPage : {0, 2}, pageSize : {0}]

SomeLocations ==
    { NoParams,
      [NoParams EXCEPT !.currentPage = 3, !.pageSize = 20,
                       !.filters = <<authorAlice>>],
      [NoParams EXCEPT !.after = "abc"] }

CursorLocations == { NoParams, [NoParams EXCEPT !.after = "abc"] }

LocFilters == { <<>>, <<authorAlice>> }

LocSorters == { <<>>, <<titleAsc>> }

\* a response with a next token and one with a prev token
LocResponses ==
    { [cursor |-> TRUE, next |-> "abc", prev |-> undefined, total |-> <<>>],
      [cursor |-> TRUE, next |-> undefined, prev |-> "def", total |-> <<>>] }

\* the argument of createLinkForSyncWithLocation
LinkParams ==
    [currentPage : {2}, pageSize : {10}, sorters : {<<titleAsc>>}, filters : LocFilters]

\* server and off mode with and without synchronization, cursor mode with
\* synchronization
InitLocation ==
    \/ /\ Props(OffsetLocPaginations, {<<statusOpen>>}, LocFilters, {<<idDesc>>}, {<<>>}, {"replace"})
       /\ MountAt(BOOLEAN, SomeLocations)
    \/ /\ Props({CursorPagination}, {<<statusOpen>>}, LocFilters, {<<idDesc>>}, {<<>>}, {"replace"})
       /\ MountAt({TRUE}, CursorLocations)

LocSetFilters ==
    /\ idle
    /\ \E f \in LocFilters :
          SetFilters([isFunction |-> FALSE, kind |-> "filters", value |-> f], undefined)
    /\ handled(TRUE)

LocSetSorters ==
    /\ idle
    /\ \E srt \in LocSorters : SetSorters(srt)
    /\ handled(TRUE)

LocSetCurrentPage ==
    /\ idle
    /\ ~isCursorPaginationEnabled
    /\ \E n \in 1..2 : SetCurrentPage(n)
    /\ handled(syncDependencies' # syncDependencies)

\* in cursor mode the model walks one page forward from the mounted one
LocGoToNextPage ==
    /\ idle
    /\ isCursorPaginationEnabled
    /\ cursorState.history = <<>>
    /\ GoToNextPage
    /\ handled(syncDependencies' # syncDependencies)

LocGoToPreviousPage ==
    /\ idle
    /\ isCursorPaginationEnabled
    /\ GoToPreviousPage
    /\ handled(syncDependencies' # syncDependencies)

LocFetch ==
    /\ idle
    /\ isCursorPaginationEnabled
    /\ \E r \in LocResponses : FetchSuccess(r)
    /\ handled(FALSE)

LocCreateLink ==
    /\ idle
    /\ \E given \in LinkParams : CreateLink(given)
    /\ handled(FALSE)

NextLocation ==
    \/ LocReset
    \/ LocResetSkipped
    \/ LocSyncOut
    \/ LocNavigate(IF isCursorPaginationEnabled THEN CursorLocations ELSE SomeLocations)
    \/ LocSetFilters
    \/ LocSetSorters
    \/ LocSetCurrentPage
    \/ LocGoToNextPage
    \/ LocGoToPreviousPage
    \/ LocFetch
    \/ LocCreateLink

SpecLocation == InitLocation /\ [][NextLocation]_vars

(***************************************************************************)
(* The requests: every pagination mode, server-side and client-side        *)
(* filtering and sorting; a handler or a fetch completion re-renders and   *)
(* the render sends its request.                                           *)
(***************************************************************************)
ListModes == {"server", "off"}

RequestPaginations == [mode : PaginationModes, currentPage : {0}, pageSize : {0, 5}]

InitRequest ==
    /\ Props(RequestPaginations, {<<statusOpen>>}, {<<>>}, {<<idDesc>>}, {<<>>}, {"merge"})
    /\ syncWithLocation = FALSE
    /\ filtersMode \in ListModes
    /\ sortersMode \in ListModes
    /\ parsedParams = NoParams
    /\ pending = [reset |-> "navigation", syncOut |-> FALSE]
    /\ phase = "free"
    /\ InitState
    /\ trail = <<cursorState.current>>
    /\ inFlight = {requestOf(cursorState)}
    /\ answered = NoRequest

rendering == call.op # "useList"

afterRequest(step) == ~rendering /\ step /\ UNCHANGED aux

NextRequest ==
    \/ rendering /\ SendRequest /\ UNCHANGED aux
    \/ \E f \in LocFilters :
          afterRequest(SetFilters([isFunction |-> FALSE, kind |-> "filters", value |-> f], undefined))
    \/ \E srt \in LocSorters : afterRequest(SetSorters(srt))
    \/ \E n \in 1..2 : afterRequest(SetCurrentPage(n))
    \/ afterRequest(GoToNextPage)
    \/ afterRequest(GoToPreviousPage)
    \/ \E r \in LocResponses : afterRequest(FetchSuccess(r))

SpecRequest == InitRequest /\ [][NextRequest]_vars

(***************************************************************************)
(* Offset pagination: the page setters, the navigation helpers and fetch   *)
(* completions that report a total or none.                                *)
(***************************************************************************)
OffsetPaginations ==
    [mode : {"server", "off"}, currentPage : {0, 2}, pageSize : {0, 5}]

Totals == {<<>>} \cup { <<t>> : t \in 0..MaxTotal }

PageResponses ==
    [cursor : {FALSE}, next : {undefined}, prev : {undefined}, total : Totals]

InitPages ==
    Mount(OffsetPaginations, {<<>>}, {<<>>}, {<<>>}, {<<>>}, {"merge"})

NextPages ==
    \/ \E n \in 1..MaxPage : SetCurrentPage(n) /\ UNCHANGED aux
    \/ \E n \in PageSizes : SetPageSize(n) /\ UNCHANGED aux
    \/ GoToNextPage /\ UNCHANGED aux
    \/ GoToPreviousPage /\ UNCHANGED aux
    \/ \E r \in PageResponses : FetchSuccess(r) /\ UNCHANGED aux

SpecPages == InitPages /\ [][NextPages]_vars

(***************************************************************************)
(* Cursor navigation over a forward-only Fetcher: mounted on the first     *)
(* page, every response carries at most a next token.  A navigation that   *)
(* moved the cursor is followed by its fetch completion before the next    *)
(* one.  `trail` lists the current token of every page from the first one  *)
(* to the page shown: goToNextPage appends the token it moved to,          *)
(* goToPreviousPage drops the last one.                                    *)
(***************************************************************************)
ForwardResponses == { r \in Responses : r.prev = undefined }

\* the responses of the late-response scenario: tokens that navigate
StaleResponses ==
    { r \in Responses : r.next \in {undefined, "abc"} /\ r.prev \in {undefined, "def"} }

awaitingFetch ==
    \/ call.op = "mount"
    \/ /\ call.op \in {"goToNextPage", "goToPreviousPage"}
       /\ call.from.cursorState # cursorState

InitForward ==
    Mount({CursorPagination}, {<<>>}, {<<>>}, {<<>>}, {<<>>}, {"merge"})

ForwardFetch ==
    /\ \E r \in ForwardResponses : FetchSuccess(r)
    /\ UNCHANGED aux

ForwardNext ==
    /\ ~awaitingFetch
    /\ GoToNextPage
    /\ trail' = IF cursorState' # cursorState
                THEN Append(trail, cursorState'.current)
                ELSE trail
    /\ UNCHANGED <<pending, phase, inFlight, answered>>

ForwardPrevious ==
    /\ ~awaitingFetch
    /\ GoToPreviousPage
    /\ trail' = IF Len(trail) > 1 THEN SubSeq(trail, 1, Len(trail) - 1)
                ELSE trail
    /\ UNCHANGED <<pending, phase, inFlight, answered>>

NextForward == ForwardFetch \/ ForwardNext \/ ForwardPrevious

SpecForward == InitForward /\ [][NextForward]_vars

(***************************************************************************)
(* Going back for good: after any cursor navigation (phase "free") the     *)
(* user only calls goToPreviousPage, each call followed by its fetch       *)
(* completion, and the Fetcher supplies no prev token any more (phase      *)
(* "back").  The user keeps calling and the fetches complete: weak         *)
(* fairness on both steps.                                                 *)
(***************************************************************************)
InitBack ==
    Mount({CursorPagination}, {<<>>}, {<<>>}, {<<>>}, {<<>>}, {"merge"})

FreeStep ==
    /\ phase = "free"
    /\ \/ GoToNextPage
       \/ GoToPreviousPage
       \/ \E r \in Responses : FetchSuccess(r)
    /\ UNCHANGED aux

StartBack ==
    /\ phase = "free"
    /\ phase' = "back"
    /\ UNCHANGED <<props, sorters, filters, currentPage, pageSize, cursorState, call, parsedParams, total, pending, trail, inFlight, answered>>

BackStep ==
    /\ phase = "back"
    /\ call.op # "goToPreviousPage"
    /\ GoToPreviousPage
    /\ UNCHANGED aux

BackFetch ==
    /\ phase = "back"
    /\ call.op = "goToPreviousPage"
    /\ \E r \in ForwardResponses : FetchSuccess(r)
    /\ UNCHANGED aux

NextBack == FreeStep \/ StartBack \/ BackStep \/ BackFetch

SpecBack ==
    InitBack /\ [][NextBack]_vars /\ WF_vars(BackStep) /\ WF_vars(BackFetch)

(***************************************************************************)
(* Late responses: cursor mode with a Fetcher that has several requests    *)
(* in flight.  Every render whose cursor position differs from the one     *)
(* before asks useList for that position; the Fetcher may also fetch the   *)
(* present position again.  query.data is the response to the request of   *)
(* the present render only: the Fetcher drops the response to any other    *)
(* request.                                                                *)
(***************************************************************************)
InitStale ==
    Mount({CursorPagination}, {<<>>}, {<<>>}, {<<>>}, {<<>>}, {"merge"})

\* the render after a navigation hands its cursor position to useList
requested ==
    /\ inFlight' = IF requestOf(cursorState') # requestOf(cursorState)
                   THEN inFlight \cup {requestOf(cursorState')}
                   ELSE inFlight
    /\ UNCHANGED <<pending, trail, phase, answered>>

StaleNext == GoToNextPage /\ requested

StalePrevious == GoToPreviousPage /\ requested

\* the Fetcher fetches the present position again
Refetch ==
    /\ requestOf(cursorState) \notin inFlight
    /\ inFlight' = inFlight \cup {requestOf(cursorState)}
    /\ UNCHANGED <<props, sorters, filters, currentPage, pageSize, cursorState, call, parsedParams, total, pending, trail, phase, answered>>

\* the response to the request of the present render becomes query.data
Deliver ==
    /\ requestOf(cursorState) \in inFlight
    /\ \E r \in StaleResponses : FetchSuccess(r)
    /\ inFlight' = inFlight \ {requestOf(cursorState)}
    /\ answered' = requestOf(cursorState)
    /\ UNCHANGED <<pending, trail, phase>>

\* the response to a request of an earlier render arrives: it is dropped
DropStale ==
    /\ \E request \in inFlight :
          /\ request # requestOf(cursorState)
          /\ inFlight' = inFlight \ {request}
    /\ UNCHANGED <<props, sorters, filters, currentPage, pageSize, cursorState, call, parsedParams, total, pending, trail, phase, answered>>

NextStale == StaleNext \/ StalePrevious \/ Refetch \/ Deliver \/ DropStale

SpecStale == InitStale /\ [][NextStale]_vars

(***************************************************************************)
(* Every form of setFilters next to the other handlers: server and cursor  *)
(* pagination, so that the page, the sorters and the cursor state have     *)
(* values of their own when the filters change.                            *)
(***************************************************************************)
FramePaginations == [mode : {"server", "cursor"}, currentPage : {0}, pageSize : {5}]

\* a list, or an updater, of no filter or of the one on the author
FrameSetters == { s \in SetterOrFilters : s.value \in LocFilters }

InitFrame ==
    Mount(FramePaginations, {<<statusOpen>>}, {<<>>}, {<<idDesc>>}, {<<>>}, {"merge"})

NextFrame ==
    \/ \E f \in FrameSetters, b \in BehaviorArgs : SetFilters(f, b) /\ UNCHANGED aux
    \/ \E srt \in LocSorters : SetSorters(srt) /\ UNCHANGED aux
    \/ \E n \in 1..2 : SetCurrentPage(n) /\ UNCHANGED aux
    \/ GoToNextPage /\ UNCHANGED aux
    \/ GoToPreviousPage /\ UNCHANGED aux
    \/ \E r \in LocResponses : FetchSuccess(r) /\ UNCHANGED aux

SpecFrame == InitFrame /\ [][NextFrame]_vars

(***************************************************************************)
(* Two calls of goToNextPage in one event: cursor and server pagination,   *)
(* navigation, double navigation and fetch responses.                      *)
(***************************************************************************)
InitTwice ==
    Mount(FramePaginations, {<<>>}, {<<>>}, {<<>>}, {<<>>}, {"merge"})

NextTwice ==
    \/ GoToNextPage /\ UNCHANGED aux
    \/ GoToNextPageTwice /\ UNCHANGED aux
    \/ GoToPreviousPage /\ UNCHANGED aux
    \/ \E r \in Responses : FetchSuccess(r) /\ UNCHANGED aux

SpecTwice == InitTwice /\ [][NextTwice]_vars

(***************************************************************************)
(* Properties.                                                             *)
(***************************************************************************)
Contains(s, e) == \E i \in DOMAIN s : s[i] = e

\* setFilters was the last call, with a list (not an updater) as argument
calledSetFiltersWithList == call.op = "setFilters" /\ ~call.arg.isFunction

\* the behaviour the last setFilters call ran with
calledBehavior ==
    IF call.behavior = undefined THEN prefferedFilterBehavior ELSE call.behavior

\* no entry of a has the key of an entry of b
NoCommonKey(a, b) ==
    \A i \in DOMAIN a : \A j \in DOMAIN b : ~compareFilters(a[i], b[j])

\* no two entries of a share a key
KeysDistinct(a) ==
    \A i, j \in DOMAIN a : i # j => ~compareFilters(a[i], a[j])

\* C1: in every state reached by setFilters calls (merge, replace, updater
\* form; incoming filters may carry a permanent filter's key) and location
\* resets, the filters state contains every permanent filter unmodified.
C1_PermanentFiltersKept ==
    \A i \in DOMAIN preferredPermanentFilters :
        Contains(filters, preferredPermanentFilters[i])

\* C1 witness: a replace call whose incoming list carried the key of a
\* permanent filter with another value, under two permanent filters.
C1_Witness ==
    /\ calledSetFiltersWithList
    /\ call.behavior = "replace"
    /\ Len(preferredPermanentFilters) = 2
    /\ \E i \in DOMAIN call.arg.value : \E j \in DOMAIN preferredPermanentFilters :
          /\ compareFilters(call.arg.value[i], preferredPermanentFilters[j])
          /\ call.arg.value[i] # preferredPermanentFilters[j]

\* C2: setFilters(F, "replace") leaves filters equal to union(P, F): every
\* entry of the result is a permanent entry or an entry of F, whatever the
\* previous filters state was.
C2_ReplaceIsUnion ==
    (calledSetFiltersWithList /\ call.behavior = "replace") =>
        /\ filters = unionFilters(preferredPermanentFilters, call.arg.value, <<>>)
        /\ \A i \in DOMAIN filters :
              \/ Contains(preferredPermanentFilters, filters[i])
              \/ Contains(call.arg.value, filters[i])

\* C2 witness: a replace call applied to a filters state that held an entry
\* which is neither permanent nor in F, and which is gone afterwards.
C2_Witness ==
    /\ calledSetFiltersWithList
    /\ call.behavior = "replace"
    /\ \E i \in DOMAIN call.from.filters :
          /\ ~Contains(preferredPermanentFilters, call.from.filters[i])
          /\ ~Contains(call.arg.value, call.from.filters[i])
          /\ ~Contains(filters, call.from.filters[i])

\* a merge call of F on a controller whose filters are exactly P, where F
\* shares no key with P
mergedIntoPermanentOnly ==
    /\ calledSetFiltersWithList
    /\ calledBehavior = "merge"
    /\ call.from.filters = preferredPermanentFilters
    /\ NoCommonKey(call.arg.value, preferredPermanentFilters)

\* C3 as stated: setFilters(F) with merge behaviour on a controller whose
\* filters are only P, F sharing no key with P, yields P followed by F.
C3_AsStated ==
    mergedIntoPermanentOnly =>
        filters = preferredPermanentFilters \o call.arg.value

\* C3 amended: the same, for F whose entries have pairwise different keys.
C3_MergeAppendsToPermanent ==
    (mergedIntoPermanentOnly /\ KeysDistinct(call.arg.value)) =>
        filters = preferredPermanentFilters \o call.arg.value

\* C3 witness: P = [status eq open], setFilters([author eq alice]) gave
\* [status eq open, author eq alice].
C3_Witness ==
    /\ mergedIntoPermanentOnly
    /\ preferredPermanentFilters = <<statusOpen>>
    /\ call.arg.value = <<authorAlice>>
    /\ filters = <<statusOpen, authorAlice>>

\* C4: every permanent sorter is in the sorters state in every state, and
\* setSorters(S) leaves sorters equal to union(permanent, S): no sorter that
\* is neither permanent nor in S remains.
C4_SortersAreUnion ==
    /\ \A i \in DOMAIN preferredPermanentSorters :
          Contains(sorters, preferredPermanentSorters[i])
    /\ call.op = "setSorters" =>
          /\ sorters = unionSorters(preferredPermanentSorters, call.arg)
          /\ \A i \in DOMAIN sorters :
                \/ Contains(preferredPermanentSorters, sorters[i])
                \/ Contains(call.arg, sorters[i])

\* C4 witness: setSorters(S) applied to sorters holding a non-permanent
\* entry that S lacks, S carrying the field of a permanent sorter.
C4_Witness ==
    /\ call.op = "setSorters"
    /\ \E i \in DOMAIN call.from.sorters :
          /\ ~Contains(preferredPermanentSorters, call.from.sorters[i])
          /\ ~Contains(call.arg, call.from.sorters[i])
          /\ ~Contains(sorters, call.from.sorters[i])
    /\ \E i \in DOMAIN call.arg : \E j \in DOMAIN preferredPermanentSorters :
          /\ compareSorters(call.arg[i], preferredPermanentSorters[j])
          /\ call.arg[i] # preferredPermanentSorters[j]

\* the last call was `op`, made in cursor mode
calledInCursorMode(op) == call.op = op /\ isCursorPaginationEnabled

\* a cursor state with next and prev cleared
cleared(current, direction, history) ==
    [current |-> current, direction |-> direction, history |-> history,
     next |-> undefined, prev |-> undefined]

\* C5: in cursor mode goToNextPage with a next token present pushes current
\* onto the end of history, makes next the current token, sets direction
\* to after and clears next and prev; with next absent it changes nothing.
C5_GoToNextPage ==
    calledInCursorMode("goToNextPage") =>
        IF call.from.cursorState.next # undefined
        THEN cursorState =
                cleared(call.from.cursorState.next, "after",
                        Append(call.from.cursorState.history,
                               call.from.cursorState.current))
        ELSE cursorState = call.from.cursorState

\* C6: in cursor mode goToPreviousPage with a prev token present makes prev
\* the current token, sets direction to before, clears next and prev and
\* leaves history as it was.
C6_GoToPreviousPagePrefersPrev ==
    (calledInCursorMode("goToPreviousPage")
        /\ call.from.cursorState.prev # undefined) =>
        cursorState =
            cleared(call.from.cursorState.prev, "before",
                    call.from.cursorState.history)

\* C7: in cursor mode, prev absent and history non-empty: goToPreviousPage
\* removes exactly the last history entry, makes it the current token, sets
\* direction to after and clears next and prev.
C7_GoToPreviousPagePopsHistory ==
    (calledInCursorMode("goToPreviousPage")
        /\ call.from.cursorState.prev = undefined
        /\ Len(call.from.cursorState.history) > 0) =>
        LET h == call.from.cursorState.history
        IN  cursorState = cleared(h[Len(h)], "after", SubSeq(h, 1, Len(h) - 1))

\* C7 witness: history [h1, h2] with h1 # h2 and no prev became [h1] with
\* current = h2.
C7_Witness ==
    /\ calledInCursorMode("goToPreviousPage")
    /\ call.from.cursorState.prev = undefined
    /\ Len(call.from.cursorState.history) = 2
    /\ call.from.cursorState.history[1] # call.from.cursorState.history[2]
    /\ cursorState.current = call.from.cursorState.history[2]
    /\ cursorState.history = <<call.from.cursorState.history[1]>>

\* C8: in cursor mode, prev absent and history empty: goToPreviousPage with
\* current present resets to the first page (current absent, direction
\* after, history empty, next and prev cleared); with current absent too it
\* changes nothing.
C8_GoToPreviousPageReachesStart ==
    (calledInCursorMode("goToPreviousPage")
        /\ call.from.cursorState.prev = undefined
        /\ call.from.cursorState.history = <<>>) =>
        IF call.from.cursorState.current # undefined
        THEN cursorState = cleared(undefined, "after", <<>>)
        ELSE cursorState = call.from.cursorState

\* C8 witness: a present current token, a present next token, no prev and
\* an empty history, reset to the first page by goToPreviousPage.
C8_Witness ==
    /\ calledInCursorMode("goToPreviousPage")
    /\ call.from.cursorState.prev = undefined
    /\ call.from.cursorState.history = <<>>
    /\ call.from.cursorState.current # undefined
    /\ call.from.cursorState.next # undefined
    /\ cursorState.current = undefined

\* C9: in cursor mode hasNextPage is true exactly when a next token is
\* present, and hasPreviousPage exactly when a prev token is present or
\* history is non-empty or a current token is present.
C9_HasNextHasPrevious ==
    isCursorPaginationEnabled =>
        /\ hasNextPageCursor <=> cursorState.next # undefined
        /\ hasPreviousPageCursor <=>
              \/ cursorState.prev # undefined
              \/ Len(cursorState.history) > 0
              \/ cursorState.current # undefined

\* C10: in cursor mode a successful fetch completion overwrites next and
\* prev with the response's cursor.next and cursor.prev (absent when the
\* response has no cursor or omits the field) and leaves current,
\* direction and history unchanged.
C10_FetchOverwritesTokens ==
    calledInCursorMode("fetch") =>
        /\ cursorState.next =
              (IF call.arg.cursor THEN call.arg.next ELSE undefined)
        /\ cursorState.prev =
              (IF call.arg.cursor THEN call.arg.prev ELSE undefined)
        /\ cursorState.current = call.from.cursorState.current
        /\ cursorState.direction = call.from.cursorState.direction
        /\ cursorState.history = call.from.cursorState.history

\* C10 witness: a response without cursor arrived at a navigated-to page
\* that still showed a next and a prev token, and cleared both.
C10_Witness ==
    /\ calledInCursorMode("fetch")
    /\ ~call.arg.cursor
    /\ call.from.cursorState.next # undefined
    /\ call.from.cursorState.prev # undefined
    /\ call.from.cursorState.current # undefined
    /\ Len(call.from.cursorState.history) > 0
    /\ cursorState.next = undefined
    /\ cursorState.prev = undefined

(***************************************************************************)
(* Cursor navigation as a whole.                                           *)
(***************************************************************************)
onFirstPage == Len(trail) = 1

\* C11: over a forward-only Fetcher, mounted on the first page: every
\* goToPreviousPage makes current the token that was current before the
\* matching goToNextPage (the current token is always that of the page the
\* trail ends at), hasPreviousPage is true exactly when the page shown is
\* not the first one, and after as many goToPreviousPage calls as
\* successful goToNextPage calls current is absent and history is empty.
C11_ForwardOnlyRoundTrip ==
    /\ cursorState.current = trail[Len(trail)]
    /\ hasPreviousPageCursor <=> ~onFirstPage
    /\ onFirstPage =>
          cursorState.current = undefined /\ cursorState.history = <<>>

\* C11 witness: from the third page goToPreviousPage came back to the
\* second one, whose token is present.
C11_Witness ==
    /\ call.op = "goToPreviousPage"
    /\ Len(call.from.cursorState.history) = 2
    /\ Len(trail) = 2
    /\ Truthy(cursorState.current)
    /\ cursorState.current # call.from.cursorState.current

firstPageReached ==
    /\ cursorState.current = undefined
    /\ cursorState.history = <<>>
    /\ ~hasPreviousPageCursor

\* C12: from every reachable cursor state, once the user only calls
\* goToPreviousPage (each call followed by its fetch completion) and the
\* Fetcher supplies no prev token any more, the first page is eventually
\* reached: current absent, history empty, hasPreviousPage false.
C12_GoingBackReachesFirstPage == (phase = "back") ~> firstPageReached

\* C12 witness: going back for good, a goToPreviousPage popped the last
\* history entry and arrived on the first page.
C12_Witness ==
    /\ phase = "back"
    /\ call.op = "goToPreviousPage"
    /\ Len(call.from.cursorState.history) = 1
    /\ Truthy(call.from.cursorState.current)
    /\ firstPageReached

(***************************************************************************)
(* Offset pagination.                                                      *)
(***************************************************************************)
\* n is the least number of pages of `size` rows that hold `rows` rows
isCeiling(n, rows, size) ==
    /\ n * size >= rows
    /\ n > 0 => (n - 1) * size < rows

\* C13: in offset mode pageCount is ceil(total / pageSize), an absent total
\* counting as 0, and hasNextPage is false exactly when currentPage >=
\* pageCount; total = 47 with pageSize = 10 gives pageCount = 5.
C13_PageCountAndHasNextPage ==
    ~isCursorPaginationEnabled =>
        /\ total = <<>> => pageCount = 0
        /\ total # <<>> => isCeiling(pageCount, total[1], pageSize)
        /\ ~hasNextPage <=> currentPage >= pageCount
        /\ (total = <<47>> /\ pageSize = 10) => pageCount = 5

\* C13 witness: total 47 and pageSize 10, page 5 reached by goToNextPage
\* from page 4: no next page.
C13_Witness ==
    /\ ~isCursorPaginationEnabled
    /\ total = <<47>>
    /\ pageSize = 10
    /\ call.op = "goToNextPage"
    /\ currentPage = 5
    /\ pageCount = 5
    /\ ~hasNextPage

(***************************************************************************)
(* Initialization and the location.                                        *)
(***************************************************************************)
\* the value of the location if there is one (0: none), else the preferred
\* one if there is one, else the hard-coded default
byPrecedence(located, preferred, hardCoded) ==
    IF syncWithLocation /\ located # 0 THEN located
    ELSE IF preferred # 0 THEN preferred
    ELSE hardCoded

listByPrecedence(located, preferred) ==
    IF syncWithLocation /\ located # <<>> THEN located ELSE preferred

readsCursor == syncWithLocation /\ isCursorPaginationEnabled

\* the page, the size, the sorters and the filters of the first render
initializedByPrecedence ==
    /\ currentPage =
          byPrecedence(parsedParams.currentPage, pagination.currentPage, 1)
    /\ pageSize =
          byPrecedence(parsedParams.pageSize, pagination.pageSize, 10)
    /\ sorters =
          unionSorters(preferredPermanentSorters,
              listByPrecedence(parsedParams.sorters, preferredInitialSorters))
    /\ filters =
          unionFilters(preferredPermanentFilters,
              listByPrecedence(parsedParams.filters, preferredInitialFilters),
              <<>>)

\* the cursor of the first render, read from the location if `reads`
cursorInitialized(reads) ==
    /\ cursorState.history = <<>>
    /\ IF reads /\ parsedParams.after # undefined
       THEN /\ cursorState.current = parsedParams.after
            /\ cursorState.direction = "after"
       ELSE IF reads /\ parsedParams.before # undefined
       THEN /\ cursorState.current = parsedParams.before
            /\ cursorState.direction = "before"
       ELSE /\ cursorState.current = undefined
            /\ cursorState.direction = "after"

isDefaultStateOf(params) ==
    /\ currentPage = byPrecedence(params.currentPage, pagination.currentPage, 1)
    /\ pageSize = byPrecedence(params.pageSize, pagination.pageSize, 10)
    /\ sorters =
          unionSorters(preferredPermanentSorters,
              listByPrecedence(params.sorters, preferredInitialSorters))
    /\ filters =
          unionFilters(preferredPermanentFilters,
              listByPrecedence(params.filters, preferredInitialFilters), <<>>)

\* C15 as stated: when the location becomes empty the state is reset to
\* the defaults computed at mount.
C15_AsStated == call.op = "reset" => isDefaultStateOf(mountParams)

\* C15: when the serialized location becomes empty, whatever the state
\* was, currentPage, pageSize, sorters and filters are reset to the
\* defaults computed from the empty location: the preferred value if there
\* is one, else the hard-coded default, sorters and filters unioned with
\* the permanent sets.
C15_ResetToDefaults == call.op = "reset" => isDefaultStateOf(NoParams)

\* C15 witness: mounted with synchronization on a location with values,
\* a navigation to the bare location reset a state that had another page
\* and other filters.
C15_Witness ==
    /\ call.op = "reset"
    /\ call.arg = "navigation"
    /\ syncWithLocation
    /\ mountParams # NoParams
    /\ pagination.currentPage # 0
    /\ call.from.currentPage # currentPage
    /\ call.from.filters # filters

calledSyncOut == call.op = "syncOut" /\ syncWithLocation

\* C16: with synchronization every write of the sync-out effect carries,
\* in cursor mode, both cursor keys and at most one with a token: with a
\* current token the key named by the direction carries it and the other
\* is cleared, without one both are cleared; outside cursor mode it
\* carries no cursor key; it carries currentPage and pageSize, those of
\* the state, exactly in offset mode with pagination enabled.
C16_WrittenCursorAndPage ==
    calledSyncOut =>
        LET query == call.arg
            cs == call.from.cursorState
            other == IF cs.direction = "after" THEN "before" ELSE "after"
        IN  /\ IF isCursorPaginationEnabled
               THEN /\ {"after", "before"} \subseteq query.keys
                    /\ query.after = undefined \/ query.before = undefined
                    /\ query[other] = undefined
                    /\ query[cs.direction] = cs.current
               ELSE query.keys \cap {"after", "before"} = {}
            /\ IF pagination.mode = "server"
               THEN /\ {"currentPage", "pageSize"} \subseteq query.keys
                    /\ query.currentPage = call.from.currentPage
                    /\ query.pageSize = call.from.pageSize
               ELSE query.keys \cap {"currentPage", "pageSize"} = {}

\* C16 witness: in cursor mode a write with direction before: the before
\* key carries the current token, the after key is cleared.
C16_Witness ==
    /\ calledSyncOut
    /\ isCursorPaginationEnabled
    /\ call.from.cursorState.direction = "before"
    /\ call.arg.before = "def"
    /\ call.arg.after = undefined
    /\ parsedParams.before = "def"
    /\ parsedParams.after = undefined

\* the entries of list equal to no entry of permanent
without(list, permanent) == SelectSeq(list, LAMBDA e : ~Contains(permanent, e))

\* C17: the sorters and filters the sync-out effect writes are those of
\* the state minus the permanent sets: no entry equal to a permanent
\* filter or sorter is written.
C17_PermanentNeverWritten ==
    calledSyncOut =>
        /\ call.arg.filters =
              without(call.from.filters, preferredPermanentFilters)
        /\ call.arg.sorters =
              without(call.from.sorters, preferredPermanentSorters)
        /\ \A i \in DOMAIN call.arg.filters :
              ~Contains(preferredPermanentFilters, call.arg.filters[i])
        /\ \A i \in DOMAIN call.arg.sorters :
              ~Contains(preferredPermanentSorters, call.arg.sorters[i])
        /\ parsedParams.filters = call.arg.filters
        /\ parsedParams.sorters = call.arg.sorters

\* C17 witness: permanent and other filters and sorters in the state,
\* only the others written.
C17_Witness ==
    /\ calledSyncOut
    /\ call.from.filters = <<statusOpen, authorAlice>>
    /\ call.arg.filters = <<authorAlice>>
    /\ call.from.sorters = <<idDesc, titleAsc>>
    /\ call.arg.sorters = <<titleAsc>>

\* C18: the link of createLinkForSyncWithLocation carries the given
\* currentPage and pageSize (pagination enabled), the given sorters and the
\* given filters, and the call changes neither the state nor the location.
C18_LinkIsProjection ==
    call.op = "createLink" =>
        /\ isPaginationEnabled =>
              /\ call.arg.link.currentPage = call.arg.given.currentPage
              /\ call.arg.link.pageSize = call.arg.given.pageSize
        /\ call.arg.link.sorters = call.arg.given.sorters
        /\ call.arg.link.filters = call.arg.given.filters
        /\ rendered = call.from

\* C19: a write of the sync-out effect never makes the reset effect change
\* the state: after a reset that a write caused, the page, the size, the
\* sorters and the filters are those that were written from.
C19_WriteNeverResets ==
    (call.op = "reset" /\ call.arg = "write") =>
        /\ currentPage = call.from.currentPage
        /\ pageSize = call.from.pageSize
        /\ sorters = call.from.sorters
        /\ filters = call.from.filters

(***************************************************************************)
(* The requests.                                                           *)
(***************************************************************************)
\* C20: every request is shaped from the state of its render.  In cursor
\* mode it carries no currentPage and its meta carries cursor.current and
\* cursor.direction, those of the state; in the other modes it carries the
\* state's currentPage and no cursor meta; it carries the state's pageSize
\* and the mode in every mode; it carries filters, the permanent ones
\* unioned with the state's, exactly when the filter mode is server, and
\* sorters exactly when the sorter mode is server.
C20_RequestShapedFromState ==
    call.op = "useList" =>
        LET request == call.arg
        IN  /\ {"pageSize", "mode"} \subseteq request.keys
            /\ request.pageSize = call.from.pageSize
            /\ request.mode = pagination.mode
            /\ IF pagination.mode = "cursor"
               THEN /\ "currentPage" \notin request.keys
                    /\ "meta.cursor" \in request.keys
                    /\ request.cursor.current = call.from.cursorState.current
                    /\ request.cursor.direction =
                          call.from.cursorState.direction
               ELSE /\ "currentPage" \in request.keys
                    /\ request.currentPage = call.from.currentPage
                    /\ "meta.cursor" \notin request.keys
            /\ "filters" \in request.keys <=> filtersMode = "server"
            /\ "filters" \in request.keys =>
                  request.filters =
                      unionFilters(preferredPermanentFilters,
                                   call.from.filters, <<>>)
            /\ "sorters" \in request.keys <=> sortersMode = "server"
            /\ "sorters" \in request.keys =>
                  request.sorters =
                      unionSorters(preferredPermanentSorters,
                                   call.from.sorters)

\* C20 witness: a cursor mode request after goToPreviousPage took the prev
\* token, with server-side filters and client-side sorters.
C20_Witness ==
    /\ call.op = "useList"
    /\ pagination.mode = "cursor"
    /\ filtersMode = "server"
    /\ sortersMode = "off"
    /\ call.arg.cursor = [current |-> "def", direction |-> "before"]
    /\ call.arg.filters = <<statusOpen, authorAlice>>
    /\ "sorters" \notin call.arg.keys
    /\ "currentPage" \notin call.arg.keys


\* next or prev holds a token
holdsTokens == cursorState.next # undefined \/ cursorState.prev # undefined

keptAllButPage ==
    /\ pageSize = call.from.pageSize
    /\ sorters = call.from.sorters
    /\ filters = call.from.filters
    /\ cursorState = call.from.cursorState

(***************************************************************************)
(* C22: outside cursor mode goToNextPage increases currentPage by exactly  *)
(* 1, goToPreviousPage decreases it by 1 but never below 1, currentPage    *)
(* is at least 1 in every state, and neither call changes pageSize,        *)
(* sorters, filters or the cursor state.                                   *)
(***************************************************************************)
C22_OffsetSteps ==
    ~isCursorPaginationEnabled =>
        /\ currentPage >= 1
        /\ call.op = "goToNextPage" =>
              /\ currentPage = call.from.currentPage + 1
              /\ keptAllButPage
        /\ call.op = "goToPreviousPage" =>
              /\ currentPage = (IF call.from.currentPage = 1 THEN 1
                                ELSE call.from.currentPage - 1)
              /\ keptAllButPage

\* goToPreviousPage on page 1, with a total and a page size other than 10
C22_Witness ==
    /\ ~isCursorPaginationEnabled
    /\ call.op = "goToPreviousPage"
    /\ call.from.currentPage = 1
    /\ currentPage = 1
    /\ pageSize # 10
    /\ total # <<>>

(***************************************************************************)
(* C23: setFilters, called with a list under merge or replace or with an   *)
(* updater, changes only filters: currentPage, pageSize, sorters and the   *)
(* cursor state are what they were before the call.                        *)
(***************************************************************************)
C23_SetFiltersFrame ==
    call.op = "setFilters" =>
        /\ currentPage = call.from.currentPage
        /\ pageSize = call.from.pageSize
        /\ sorters = call.from.sorters
        /\ cursorState = call.from.cursorState

\* an updater changed the filters on a page reached by cursor navigation,
\* with a next token and a sorter of the user in place
C23_Witness ==
    /\ call.op = "setFilters"
    /\ call.arg.isFunction
    /\ filters # call.from.filters
    /\ isCursorPaginationEnabled
    /\ cursorState.current # undefined
    /\ cursorState.next # undefined
    /\ currentPage = 2
    /\ Len(sorters) = 2

(***************************************************************************)
(* C24: cursor tokens are opaque.  Whatever the value of a token, the      *)
(* empty string included: a next token the response supplied makes         *)
(* goToNextPage go to it, a prev token makes goToPreviousPage go to it,    *)
(* and a current token counts as present, for goToPreviousPage (which      *)
(* then returns to the first page) and for hasPreviousPage.                *)
(***************************************************************************)
C24_OpaqueTokens ==
    isCursorPaginationEnabled =>
        /\ (call.op = "goToNextPage" /\ call.from.cursorState.next \in Tokens) =>
              /\ cursorState.current = call.from.cursorState.next
              /\ cursorState.direction = "after"
        /\ (call.op = "goToPreviousPage" /\ call.from.cursorState.prev \in Tokens) =>
              /\ cursorState.current = call.from.cursorState.prev
              /\ cursorState.direction = "before"
        /\ (/\ call.op = "goToPreviousPage"
            /\ call.from.cursorState.prev = undefined
            /\ call.from.cursorState.history = <<>>
            /\ call.from.cursorState.current \in Tokens) =>
              cursorState.current = undefined
        /\ cursorState.current \in Tokens => hasPreviousPage

(***************************************************************************)
(* C25: in cursor mode two calls of goToNextPage made before a re-render,  *)
(* both seeing a next token the first call navigates to, leave the state   *)
(* one call leaves: the current token is that next token, never absent,    *)
(* the history got the page left and not the next token, and the second    *)
(* call changed nothing.                                                   *)
(***************************************************************************)
C25_SecondCallIsNoOp ==
    (calledInCursorMode("goToNextPageTwice")
        /\ Truthy(call.from.cursorState.next)) =>
        /\ cursorState.current # undefined
        /\ ~Contains(SubSeq(cursorState.history,
                            Len(call.from.cursorState.history) + 1,
                            Len(cursorState.history)),
                     call.from.cursorState.next)
        /\ cursorState = goToNextPageCursor(call.from.cursorState)

(***************************************************************************)
(* C26: the reset on an empty location leaves the cursor state untouched   *)
(* (current, direction, next, prev and history are what they were), so     *)
(* in cursor mode with synchronization the sync-out that follows the       *)
(* reset writes a current token that is not absent back to the location,   *)
(* under the key of its direction.                                         *)
(***************************************************************************)
C26_ResetKeepsCursor ==
    [][/\ call'.op = "reset" => cursorState' = call'.from.cursorState
       /\ (/\ call.op = "reset"
           /\ call'.op = "syncOut"
           /\ isCursorPaginationEnabled
           /\ syncWithLocation
           /\ cursorState.current # undefined) =>
             /\ cursorState' = cursorState
             /\ parsedParams'[cursorState.direction] = cursorState.current]_vars

\* the location was emptied on a page reached by cursor navigation; the
\* reset has run, the cursor state kept its tokens and its history
C26_Witness ==
    /\ call.op = "reset"
    /\ call.arg = "navigation"
    /\ isCursorPaginationEnabled
    /\ syncWithLocation
    /\ parsedParams = NoParams
    /\ cursorState.current = "abc"
    /\ cursorState.history # <<>>
    /\ cursorState.prev # undefined
====
